---- MODULE Spec2Model ----
(***************************************************************************)
(* The workflow builder: the graph store (nodes, edges), the validation    *)
(* pass of WorkflowValidation, the undo/redo history of WorkflowBuilder    *)
(* and the run request executeWorkflow.                                    *)
(*                                                                         *)
(* Spec follows the graph store, the history and the run flag under the    *)
(* editing handlers.  The execution panel (results, log, counters), the    *)
(* engine's calls in flight and the files are followed by specifications   *)
(* of their own: SpecRun, SpecClear, SpecSimulate, SpecChain, SpecImport;  *)
(* SpecCapacity follows the history past its capacity.                     *)
(*                                                                         *)
(* Every handler is one action.  A handler created by useCallback reads    *)
(* the nodes, edges and historyIndex of the render that created it; the    *)
(* functional updaters (setNodes(nds => ...), setHistoryIndex(p => p + 1)) *)
(* read the state at the time they are applied.                            *)
(***************************************************************************)
EXTENDS Integers, Sequences, FiniteSets, TLC

VARIABLES
    nodes,            \* useNodesState: the node array
    edges,            \* useEdgesState: the edge array
    history,          \* useState<{nodes, edges}[]>([])
    historyIndex,     \* useState(-1)
    isExecuting,      \* useState(false)
    workflowSettings, \* useState({... enableValidation, errorHandling ...})
    now,              \* the reading of Date.now()
    initial,          \* the graph of the first render (initialNodes, initialEdges)
    issues,           \* the issue list the validation panel last computed
    lastOp,           \* history variable: the handler that ran last
    couldRedo,        \* history variable: canRedo when the last handler started
    script,           \* history variable: mutations, undos, redos done in that order
    executionResults, \* useState<Map<string, any>>(new Map()), as a set of pairs
    executionLog,     \* useState<any[]>([])
    totalNodes,       \* useState(0)
    completedNodes,   \* useState(0)
    currentExecutingNode, \* useState<string | null>(null)
    workflowEngine,   \* the engine singleton: its log and the calls in flight
    returned,         \* the value the last handleSimulateNode call resolved to
    file,             \* the document written last (Export, canvas download)
    picked,           \* the file handleImport read last
    pushLimit         \* the number of history pushes a behaviour is followed for

\* the execution panel, the engine and the files
execVars == <<executionResults, executionLog, totalNodes, completedNodes,
              currentExecutingNode, workflowEngine, returned, file, picked,
              pushLimit>>

vars == <<nodes, edges, history, historyIndex, isExecuting, workflowSettings,
          now, initial, issues, lastOp, couldRedo, script, execVars>>

(***************************************************************************)
(* Bounds of the model.                                                    *)
(***************************************************************************)
MaxNodes == 2
MaxEdges == 2
MaxClock == 2
MaxPushes == 2
MaxCycleNodes == 3
MaxCycleEdges == 3
MaxRuleNodes == 2
MaxRuleEdges == 2
MaxMutations == 60
MaxRunPushes == 2
MaxClearPushes == 1
MaxLog == 3
MaxSteps == 1
MaxImportPushes == 2

\* newHistory.slice(-50)
HistoryCap == 50

(***************************************************************************)
(* Data.                                                                   *)
(***************************************************************************)
\* node ids are `${type}-${Date.now()}`
NodeId(type, stamp) == <<type, stamp>>

NoNode == <<>>

Node(id, type, enabled, status) ==
    [id |-> id, type |-> type, enabled |-> enabled, status |-> status]

Edge(source, target) == [source |-> source, target |-> target]

\* data.enabled is true, false or absent; a node counts as enabled unless
\* enabled === false
IsEnabled(n) == n.enabled # "false"

\* !n.data.enabled
NotEnabled(e) == IF e = "true" THEN "false" ELSE "true"

Min(a, b) == IF a < b THEN a ELSE b

\* Array.prototype.slice(-n)
LastN(s, n) == IF Len(s) <= n THEN s ELSE SubSeq(s, Len(s) - n + 1, Len(s))

\* Array.prototype.slice(0, n)
FirstN(s, n) == SubSeq(s, 1, Min(n, Len(s)))

Issue(rule, type, nodeId) == [rule |-> rule, type |-> type, nodeId |-> nodeId]

IssuesOf(ns, rule, type) == [i \in 1..Len(ns) |-> Issue(rule, type, ns[i].id)]

(***************************************************************************)
(* WorkflowValidation: the validation pass.                                *)
(***************************************************************************)
triggerNodes(ns) == SelectSeq(ns, LAMBDA n : n.type = "trigger")

noTriggerRule(ns) ==
    IF Len(triggerNodes(ns)) = 0
    THEN <<Issue("no-trigger", "error", NoNode)>>
    ELSE <<>>

connectedNodeIds(es) ==
    {es[i].source : i \in DOMAIN es} \cup {es[i].target : i \in DOMAIN es}

IsIsolatedAnyKind(n, es) == n.id \notin connectedNodeIds(es)

IsIsolated(n, es) == n.id \notin connectedNodeIds(es) /\ n.type # "trigger"

isolationRule(ns, es) ==
    IssuesOf(SelectSeq(ns, LAMBDA n : IsIsolated(n, es)), "isolated", "warning")

outgoingEdges(es, nodeId) == SelectSeq(es, LAMBDA e : e.source = nodeId)

deadBranchRuleAnyKind(ns, es) ==
    IssuesOf(SelectSeq(ns, LAMBDA n : Len(outgoingEdges(es, n.id)) = 0),
             "condition-no-output", "warning")

deadBranchRule(ns, es) ==
    IssuesOf(SelectSeq(ns, LAMBDA n :
                 n.type = "condition" /\ Len(outgoingEdges(es, n.id)) = 0),
             "condition-no-output", "warning")

\* hasCycle works on the two sets visited and recursionStack, which it
\* shares with every call of one validation pass: st carries them, and
\* st.found is the value the call returns.
RECURSIVE hasCycle(_, _, _)
RECURSIVE visitOutgoing(_, _, _, _)

visitOutgoing(out, i, st, es) ==
    IF i > Len(out) THEN [st EXCEPT !.found = FALSE]
    ELSE LET r == hasCycle(out[i].target, st, es)
         IN IF r.found THEN r ELSE visitOutgoing(out, i + 1, r, es)

hasCycleOneSet(nodeId, st, es) ==
    IF nodeId \in st.visited THEN [st EXCEPT !.found = TRUE]
    ELSE LET entered == [found |-> FALSE,
                         visited |-> st.visited \cup {nodeId},
                         recursionStack |-> st.recursionStack \cup {nodeId}]
             r == visitOutgoing(outgoingEdges(es, nodeId), 1, entered, es)
         IN IF r.found THEN r
            ELSE [r EXCEPT !.recursionStack = @ \ {nodeId}]

hasCycle(nodeId, st, es) ==
    IF nodeId \in st.recursionStack THEN [st EXCEPT !.found = TRUE]
    ELSE IF nodeId \in st.visited THEN [st EXCEPT !.found = FALSE]
    ELSE LET entered == [found |-> FALSE,
                         visited |-> st.visited \cup {nodeId},
                         recursionStack |-> st.recursionStack \cup {nodeId}]
             r == visitOutgoing(outgoingEdges(es, nodeId), 1, entered, es)
         IN IF r.found THEN r
            ELSE [r EXCEPT !.recursionStack = @ \ {nodeId}]

\* the scan going on to the end of the node list
RECURSIVE cycleScanOn(_, _, _, _)
cycleScanOn(ns, i, st, es) ==
    IF i > Len(ns) THEN <<>>
    ELSE LET r == hasCycle(ns[i].id, st, es)
         IN (IF r.found THEN <<Issue("cycle", "error", ns[i].id)>> ELSE <<>>)
                \o cycleScanOn(ns, i + 1, r, es)

\* for (const node of nodes) { if (hasCycle(node.id)) { push; break } }
RECURSIVE cycleScan(_, _, _, _)
cycleScan(ns, i, st, es) ==
    IF i > Len(ns) THEN <<>>
    ELSE LET r == hasCycle(ns[i].id, st, es)
         IN IF r.found THEN <<Issue("cycle", "error", ns[i].id)>>
            ELSE cycleScan(ns, i + 1, r, es)

cycleRule(ns, es) ==
    cycleScan(ns, 1, [found |-> FALSE, visited |-> {}, recursionStack |-> {}], es)

disabledCriticalNodesUnlessTrue(ns) ==
    SelectSeq(ns, LAMBDA n : n.enabled # "true" /\ n.type \in {"trigger", "condition"})

disabledCriticalNodes(ns) ==
    SelectSeq(ns, LAMBDA n : n.enabled = "false" /\ n.type \in {"trigger", "condition"})

disabledCriticalRule(ns) == IssuesOf(disabledCriticalNodes(ns), "disabled-critical", "info")

validate(ns, es) ==
    noTriggerRule(ns) \o isolationRule(ns, es) \o deadBranchRule(ns, es)
        \o cycleRule(ns, es) \o disabledCriticalRule(ns)

errorCount(is) == Len(SelectSeq(is, LAMBDA x : x.type = "error"))

(***************************************************************************)
(* WorkflowBuilder: the editor.                                            *)
(***************************************************************************)
Graph(ns, es) == [nodes |-> ns, edges |-> es]

\* initialWorkflow: the graph the editor opens with
InitialGraphs ==
    { Graph(<<>>, <<>>),
      Graph(<<Node(NodeId("trigger", 0), "trigger", "true", "idle"),
              Node(NodeId("action", 0), "action", "true", "idle")>>,
            <<Edge(NodeId("trigger", 0), NodeId("action", 0))>>) }

\* a document handed to onApplyTemplate: its nodes carry no enabled field
Templates ==
    { Graph(<<Node(NodeId("trigger", 0), "trigger", "undefined", "idle"),
              Node(NodeId("action", 0), "action", "undefined", "idle")>>,
            <<Edge(NodeId("trigger", 0), NodeId("action", 0))>>) }

\* the node kinds the model adds (of the sixteen in nodeTypes)
AddKinds == {"trigger", "action"}

canUndo == historyIndex > 0

canRedo == historyIndex < Len(history) - 1

\* saveToHistory as created by the render whose nodes, edges and historyIndex
\* are cNodes, cEdges and cIndex: the new value of history
saveToHistoryNoSlice(prev, cNodes, cEdges, cIndex) ==
    LastN(Append(prev, Graph(cNodes, cEdges)), HistoryCap)

saveToHistory(prev, cNodes, cEdges, cIndex) ==
    LastN(Append(FirstN(prev, cIndex + 1), Graph(cNodes, cEdges)), HistoryCap)

\* addEdge(params, eds) of the canvas library: an edge that already connects
\* the two nodes is not added again
addEdge(params, eds) ==
    IF \E i \in DOMAIN eds : eds[i] = params THEN eds ELSE Append(eds, params)

ScriptOff == [phase |-> "off", m |-> 0, u |-> 0, r |-> 0, final |-> Graph(<<>>, <<>>)]

\* the history variables after a handler that mutates the graph
Mutated(op) ==
    /\ lastOp' = op
    /\ couldRedo' = canRedo
    /\ script' = IF script.phase = "m"
                 THEN [script EXCEPT !.m = @ + 1, !.final = Graph(nodes', edges')]
                 ELSE ScriptOff

\* the history variables after a handler that leaves the history alone
Other(op) ==
    /\ lastOp' = op
    /\ couldRedo' = canRedo
    /\ UNCHANGED script

CanPush == historyIndex + 1 < pushLimit

\* a handler whose saveToHistory is the one of the current render
PushCurrent ==
    /\ history' = saveToHistory(history, nodes, edges, historyIndex)
    /\ historyIndex' = historyIndex + 1

\* onConnect and onDrop are memoised without saveToHistory among their
\* dependencies: they keep the saveToHistory of the first render
PushFirstRender ==
    /\ history' = saveToHistory(history, initial.nodes, initial.edges, -1)
    /\ historyIndex' = historyIndex + 1

\* the engine before any call: an empty log, no run and no step in flight;
\* the error-handling policy it applies is its own, no handler hands it the
\* workflow settings
IdleEngine ==
    [executionLog |-> <<>>, run |-> <<>>, steps |-> {}, errorHandling |-> "stop"]

ErrorPolicies == {"stop", "continue", "retry"}

\* file contents: text that is no JSON, the JSON text null, or a JSON object
NoFile == [kind |-> "none"]

NoValue == [nodeId |-> NoNode, value |-> [status |-> "none"]]

\* the execution panel, the engine and the files after construction
InitExec(limit) ==
    /\ executionResults = {}
    /\ executionLog = <<>>
    /\ totalNodes = 0
    /\ completedNodes = 0
    /\ currentExecutingNode = NoNode
    /\ workflowEngine = IdleEngine
    /\ returned = NoValue
    /\ file = <<>>
    /\ picked = NoFile
    /\ pushLimit = limit

Init ==
    /\ InitExec(MaxPushes)
    /\ initial \in InitialGraphs
    /\ nodes = initial.nodes
    /\ edges = initial.edges
    /\ history = <<>>
    /\ historyIndex = -1
    /\ isExecuting = FALSE
    /\ workflowSettings = [enableValidation |-> TRUE, errorHandling |-> "stop"]
    /\ now = 1
    /\ issues = <<>>
    /\ lastOp = "init"
    /\ couldRedo = FALSE
    /\ script = [ScriptOff EXCEPT !.phase = "m", !.final = initial]

Tick ==
    /\ now < MaxClock
    /\ now' = now + 1
    /\ UNCHANGED <<nodes, edges, history, historyIndex, isExecuting,
                   workflowSettings, initial, issues, lastOp, couldRedo, script>>
    /\ UNCHANGED execVars

NewNode(type) == Node(NodeId(type, now), type, "true", "idle")

\* WorkflowToolbar onAddNode
OnAddNode(type) ==
    /\ CanPush
    /\ Len(nodes) < MaxNodes
    /\ nodes' = Append(nodes, NewNode(type))
    /\ PushCurrent
    /\ UNCHANGED <<edges, isExecuting, workflowSettings, now, initial, issues>>
    /\ Mutated("add")
    /\ UNCHANGED execVars

onDrop(type) ==
    /\ CanPush
    /\ Len(nodes) < MaxNodes
    /\ nodes' = Append(nodes, NewNode(type))
    /\ PushFirstRender
    /\ UNCHANGED <<edges, isExecuting, workflowSettings, now, initial, issues>>
    /\ Mutated("drop")
    /\ UNCHANGED execVars

onConnect(source, target) ==
    /\ CanPush
    /\ Len(edges) < MaxEdges
    /\ edges' = addEdge(Edge(source, target), edges)
    /\ PushFirstRender
    /\ UNCHANGED <<nodes, isExecuting, workflowSettings, now, initial, issues>>
    /\ Mutated("connect")
    /\ UNCHANGED execVars

onDeleteNode(nodeId) ==
    /\ CanPush
    /\ nodes' = SelectSeq(nodes, LAMBDA n : n.id # nodeId)
    /\ edges' = SelectSeq(edges, LAMBDA e : e.source # nodeId /\ e.target # nodeId)
    /\ PushCurrent
    /\ UNCHANGED <<isExecuting, workflowSettings, now, initial, issues>>
    /\ Mutated("delete")
    /\ UNCHANGED execVars

onDuplicateNode(nodeId) ==
    /\ CanPush
    /\ Len(nodes) < MaxNodes
    /\ LET nodeToDuplicate == SelectSeq(nodes, LAMBDA n : n.id = nodeId)[1]
       IN nodes' = Append(nodes,
              [nodeToDuplicate EXCEPT !.id = NodeId(nodeToDuplicate.type, now),
                                      !.status = "idle"])
    /\ PushCurrent
    /\ UNCHANGED <<edges, isExecuting, workflowSettings, now, initial, issues>>
    /\ Mutated("duplicate")
    /\ UNCHANGED execVars

onToggleNodeEnable(nodeId) ==
    /\ CanPush
    /\ nodes' = [i \in 1..Len(nodes) |->
                    IF nodes[i].id = nodeId
                    THEN [nodes[i] EXCEPT !.enabled = NotEnabled(@)]
                    ELSE nodes[i]]
    /\ PushCurrent
    /\ UNCHANGED <<edges, isExecuting, workflowSettings, now, initial, issues>>
    /\ Mutated("toggle")
    /\ UNCHANGED execVars

onApplyTemplate(template) ==
    /\ CanPush
    /\ nodes' = template.nodes
    /\ edges' = template.edges
    /\ PushCurrent
    /\ UNCHANGED <<isExecuting, workflowSettings, now, initial, issues>>
    /\ Mutated("template")
    /\ UNCHANGED execVars

\* an undo that drops the entries past the one it restores
undoTrimming ==
    /\ IF historyIndex > 0 /\ historyIndex - 1 < Len(history)
       THEN /\ nodes' = history[historyIndex].nodes
            /\ edges' = history[historyIndex].edges
            /\ historyIndex' = historyIndex - 1
            /\ history' = FirstN(history, historyIndex)
       ELSE UNCHANGED <<nodes, edges, historyIndex, history>>
    /\ lastOp' = "undo"
    /\ couldRedo' = canRedo
    /\ script' = ScriptOff
    /\ UNCHANGED <<isExecuting, workflowSettings, now, initial, issues>>
    /\ UNCHANGED execVars

\* history[historyIndex - 1] is undefined when the index is past the stack:
\* reading previousState.nodes then throws and the handler changes nothing
undo ==
    /\ IF historyIndex > 0 /\ historyIndex - 1 < Len(history)
       THEN /\ nodes' = history[historyIndex].nodes
            /\ edges' = history[historyIndex].edges
            /\ historyIndex' = historyIndex - 1
       ELSE UNCHANGED <<nodes, edges, historyIndex>>
    /\ lastOp' = "undo"
    /\ couldRedo' = canRedo
    /\ script' = IF script.phase \in {"m", "u"} /\ script.u < script.m
                 THEN [script EXCEPT !.phase = "u", !.u = @ + 1]
                 ELSE ScriptOff
    /\ UNCHANGED <<history, isExecuting, workflowSettings, now, initial, issues>>
    /\ UNCHANGED execVars

redo ==
    /\ IF historyIndex < Len(history) - 1
       THEN /\ nodes' = history[historyIndex + 2].nodes
            /\ edges' = history[historyIndex + 2].edges
            /\ historyIndex' = historyIndex + 1
       ELSE UNCHANGED <<nodes, edges, historyIndex>>
    /\ lastOp' = "redo"
    /\ couldRedo' = canRedo
    /\ script' = IF script.phase \in {"u", "r"} /\ script.u = script.m
                    /\ script.r < script.m
                 THEN [script EXCEPT !.phase = "r", !.r = @ + 1]
                 ELSE ScriptOff
    /\ UNCHANGED <<history, isExecuting, workflowSettings, now, initial, issues>>
    /\ UNCHANGED execVars

\* executeWorkflow's own check: validation enabled and no enabled trigger
runBlockedInverted(ns, settings) ==
    /\ ~settings.enableValidation
    /\ Len(SelectSeq(ns, LAMBDA n : n.type = "trigger" /\ IsEnabled(n))) = 0

runBlocked(ns, settings) ==
    /\ settings.enableValidation
    /\ Len(SelectSeq(ns, LAMBDA n : n.type = "trigger" /\ IsEnabled(n))) = 0

\* the Execute button is disabled while a run is in progress and on an
\* empty graph.  The run request as far as the run flag goes; what the
\* handler does to the execution panel is in executeWorkflowStart
executeWorkflow ==
    /\ ~isExecuting
    /\ Len(nodes) > 0
    /\ isExecuting' = ~runBlocked(nodes, workflowSettings)
    /\ Other("execute")
    /\ UNCHANGED <<nodes, edges, history, historyIndex, workflowSettings, now,
                   initial, issues>>
    /\ UNCHANGED execVars

\* the engine call resolves or rejects: finally { setIsExecuting(false) };
\* with the results and the log in executeWorkflowDone
executeWorkflowSettled ==
    /\ isExecuting
    /\ isExecuting' = FALSE
    /\ Other("settled")
    /\ UNCHANGED <<nodes, edges, history, historyIndex, workflowSettings, now,
                   initial, issues>>
    /\ UNCHANGED execVars

\* WorkflowSettings onSettingsChange={setWorkflowSettings}
onSettingsChange ==
    /\ workflowSettings' = [workflowSettings EXCEPT !.enableValidation = ~@]
    /\ Other("settings")
    /\ UNCHANGED <<nodes, edges, history, historyIndex, isExecuting, now,
                   initial, issues>>
    /\ UNCHANGED execVars

NodeIds == {nodes[i].id : i \in DOMAIN nodes}

Next ==
    \/ Tick
    \/ \E type \in AddKinds : OnAddNode(type)
    \/ \E type \in AddKinds : onDrop(type)
    \/ \E s \in NodeIds, t \in NodeIds : onConnect(s, t)
    \/ \E id \in NodeIds : onDeleteNode(id)
    \/ \E id \in NodeIds : onDuplicateNode(id)
    \/ \E id \in NodeIds : onToggleNodeEnable(id)
    \/ \E template \in Templates : onApplyTemplate(template)
    \/ undo
    \/ redo
    \/ executeWorkflow
    \/ executeWorkflowSettled
    \/ onSettingsChange

Spec == Init /\ [][Next]_vars

(***************************************************************************)
(* The validation pass on its own: the panel computes the issue list of    *)
(* the graph it is given.                                                  *)
(***************************************************************************)
BoundedSeq(S, n) == UNION {[1..m -> S] : m \in 0..n}

EdgesOver(ids) == {Edge(s, t) : s \in ids, t \in ids}

IdsOf(ns) == {ns[i].id : i \in DOMAIN ns}

\* WorkflowValidation's useMemo
WorkflowValidation ==
    /\ lastOp # "validate"
    /\ issues' = validate(nodes, edges)
    /\ lastOp' = "validate"
    /\ UNCHANGED <<nodes, edges, history, historyIndex, isExecuting,
                   workflowSettings, now, initial, couldRedo, script>>
    /\ UNCHANGED execVars

InitPanel ==
    /\ InitExec(MaxPushes)
    /\ initial = Graph(nodes, edges)
    /\ history = <<>>
    /\ historyIndex = -1
    /\ isExecuting = FALSE
    /\ workflowSettings = [enableValidation |-> TRUE, errorHandling |-> "stop"]
    /\ now = 1
    /\ issues = <<>>
    /\ lastOp = "init"
    /\ couldRedo = FALSE
    /\ script = ScriptOff

\* graphs of plain action nodes, every edge list over them (self-loops and
\* duplicate edges included)
CycleNodes(k) == [i \in 1..k |-> Node(NodeId("action", i), "action", "true", "idle")]

InitCycle ==
    /\ \E k \in 0..MaxCycleNodes : nodes = CycleNodes(k)
    /\ edges \in BoundedSeq(EdgesOver(IdsOf(nodes)), MaxCycleEdges)
    /\ InitPanel

SpecCycle == InitCycle /\ [][WorkflowValidation]_vars

\* graphs of nodes of every kind the rules tell apart, enabled or not
RuleKinds == {"trigger", "action", "condition"}

RuleNodes(k) ==
    {[i \in 1..k |-> Node(NodeId(type[i], i), type[i], enabled[i], "idle")] :
        type \in [1..k -> RuleKinds],
        enabled \in [1..k -> {"true", "false", "undefined"}]}

InitRules ==
    /\ \E k \in 0..MaxRuleNodes : nodes \in RuleNodes(k)
    /\ edges \in BoundedSeq(EdgesOver(IdsOf(nodes)), MaxRuleEdges)
    /\ InitPanel

SpecRules == InitRules /\ [][WorkflowValidation]_vars

(***************************************************************************)
(* The engine.  executeWorkflow(nodes, edges) walks the graph breadth     *)
(* first from the enabled triggers, one node at a time, and leaves out     *)
(* disabled nodes; every invocation appends one entry to the engine's log. *)
(* faulty is the set of nodes whose invocation faults.                     *)
(***************************************************************************)
LogEntry(nodeId, kind) == [nodeId |-> nodeId, kind |-> kind]

EnabledIds(ns) == {ns[i].id : i \in {j \in DOMAIN ns : IsEnabled(ns[j])}}

\* the enabled targets of the edges leaving nodeId that were not yet
\* discovered, in edge order
RECURSIVE Discover(_, _, _, _)
Discover(es, nodeId, enabledIds, seen) ==
    IF es = <<>> THEN <<>>
    ELSE LET e == Head(es)
             new == e.source = nodeId /\ e.target \in enabledIds
                        /\ e.target \notin seen
         IN (IF new THEN <<e.target>> ELSE <<>>)
                \o Discover(Tail(es), nodeId, enabledIds,
                            IF new THEN seen \cup {e.target} ELSE seen)

SeqToSet(q) == {q[i] : i \in DOMAIN q}

RECURSIVE EngineWalk(_, _, _, _, _, _)
EngineWalk(queue, seen, es, enabledIds, faulty, acc) ==
    IF queue = <<>> THEN acc
    ELSE LET nodeId == Head(queue)
             next == Discover(es, nodeId, enabledIds, seen)
             rest == Tail(queue) \o next
         IN IF nodeId \in faulty
            THEN LET failed == [acc EXCEPT
                         !.results = @ \cup {<<nodeId, "error">>},
                         !.log = Append(@, LogEntry(nodeId, "error"))]
                 IN IF acc.policy = "continue"
                    THEN EngineWalk(rest, seen \cup SeqToSet(next), es,
                                    enabledIds, faulty, failed)
                    ELSE [failed EXCEPT !.aborted = TRUE]
            ELSE EngineWalk(rest, seen \cup SeqToSet(next), es, enabledIds, faulty,
                            [acc EXCEPT
                                !.results = @ \cup {<<nodeId, "success">>},
                                !.log = Append(@, LogEntry(nodeId, "success"))])

EngineRun(ns, es, faulty, policy) ==
    LET start == SelectSeq(ns, LAMBDA n : n.type = "trigger" /\ IsEnabled(n))
        queue == [i \in 1..Len(start) |-> start[i].id]
    IN EngineWalk(queue, SeqToSet(queue), es, EnabledIds(ns), faulty,
                  [results |-> {}, log |-> <<>>, aborted |-> FALSE,
                   policy |-> policy])

(***************************************************************************)
(* Running: the full run, the single-node step, the simulation and Clear.  *)
(* The engine calls are awaited: a call is requested in one step and       *)
(* settles in a later one, other handlers running in between.              *)
(***************************************************************************)
\* the entries the calls in flight may still append to the engine's log
LogDemand ==
    Len(workflowEngine.executionLog) + Cardinality(workflowEngine.steps)
        + (IF workflowEngine.run = <<>> THEN 0 ELSE Len(workflowEngine.run[1].nodes))

\* an Execute button that is disabled on an empty canvas only
executeDisabledOnEmptyOnly == Len(nodes) = 0

\* the header's Execute button: disabled={isExecuting || nodeCount === 0}
executeDisabled == isExecuting \/ Len(nodes) = 0

\* executeWorkflow up to its await
executeWorkflowStart ==
    /\ ~executeDisabled
    /\ Len(workflowEngine.executionLog) + Cardinality(workflowEngine.steps)
           + Len(nodes) <= MaxLog
    /\ IF runBlocked(nodes, workflowSettings)
       THEN UNCHANGED <<isExecuting, executionResults, currentExecutingNode,
                        completedNodes, totalNodes, workflowEngine>>
       ELSE /\ isExecuting' = TRUE
            /\ executionResults' = {}
            /\ currentExecutingNode' = NoNode
            /\ completedNodes' = 0
            /\ totalNodes' = Len(SelectSeq(nodes, IsEnabled))
            /\ workflowEngine' = [workflowEngine EXCEPT !.run = <<Graph(nodes, edges)>>]
    /\ Other("execute")
    /\ UNCHANGED <<nodes, edges, history, historyIndex, workflowSettings, now,
                   initial, issues, executionLog, returned, file, picked, pushLimit>>

\* executeWorkflow from its await on: the engine resolves with the results,
\* or rejects (a node faulted under a policy that aborts, or the engine
\* itself failed)
executeWorkflowDone(faulty, internalFault) ==
    /\ isExecuting
    /\ workflowEngine.run # <<>>
    /\ LET g == workflowEngine.run[1]
           out == EngineRun(g.nodes, g.edges, faulty, workflowEngine.errorHandling)
           log == workflowEngine.executionLog \o out.log
       IN IF internalFault
          THEN /\ workflowEngine' = [workflowEngine EXCEPT !.run = <<>>]
               /\ UNCHANGED <<executionResults, executionLog>>
          ELSE /\ workflowEngine' =
                      [workflowEngine EXCEPT !.run = <<>>, !.executionLog = log]
               /\ IF out.aborted
                  THEN UNCHANGED <<executionResults, executionLog>>
                  ELSE /\ executionResults' = out.results
                       /\ executionLog' = log
    /\ isExecuting' = FALSE
    /\ currentExecutingNode' = NoNode
    /\ Other("settled")
    /\ UNCHANGED <<nodes, edges, history, historyIndex, workflowSettings, now,
                   initial, issues, totalNodes, completedNodes, returned, file, picked,
                   pushLimit>>

withStatus(ns, nodeId, status) ==
    [i \in 1..Len(ns) |->
        IF ns[i].id = nodeId THEN [ns[i] EXCEPT !.status = status] ELSE ns[i]]

\* the node's Execute button (BaseNode.handleExecute: onExecuteNode && enabled)
\* calls onExecuteSingleNode and through it handleStepExecution, up to its
\* await
handleStepExecution(nodeId) ==
    /\ \E i \in DOMAIN nodes : nodes[i].id = nodeId /\ IsEnabled(nodes[i])
    /\ Cardinality(workflowEngine.steps) < MaxSteps
    /\ nodeId \notin workflowEngine.steps
    /\ LogDemand + 1 <= MaxLog
    /\ currentExecutingNode' = nodeId
    /\ workflowEngine' = [workflowEngine EXCEPT !.steps = @ \cup {nodeId}]
    /\ Other("step")
    /\ UNCHANGED <<nodes, edges, history, historyIndex, isExecuting,
                   workflowSettings, now, initial, issues, executionResults,
                   executionLog, totalNodes, completedNodes, returned, file, picked,
                   pushLimit>>

\* handleStepExecution from its await on: executeNode resolved (ok) or threw
handleStepExecutionDone(nodeId, ok) ==
    /\ nodeId \in workflowEngine.steps
    /\ LET log == Append(workflowEngine.executionLog,
                         LogEntry(nodeId, IF ok THEN "success" ELSE "error"))
       IN /\ workflowEngine' =
                 [workflowEngine EXCEPT !.steps = @ \ {nodeId}, !.executionLog = log]
          /\ IF ok
             THEN /\ executionResults' =
                         {r \in executionResults : r[1] # nodeId}
                             \cup {<<nodeId, "success">>}
                  /\ executionLog' = log
                  /\ nodes' = withStatus(nodes, nodeId, "success")
             ELSE /\ nodes' = withStatus(nodes, nodeId, "error")
                  /\ UNCHANGED <<executionResults, executionLog>>
    /\ currentExecutingNode' = NoNode
    /\ Other("stepDone")
    /\ UNCHANGED <<edges, history, historyIndex, isExecuting, workflowSettings,
                   now, initial, issues, totalNodes, completedNodes, returned,
                   file, picked, pushLimit>>

\* what handleSimulateNode resolves to: the engine's result, or on a fault
\* the object of the catch block
simulationValueRaised(ok) ==
    IF ok THEN [status |-> "success"] ELSE NoValue.value

simulationValue(ok) ==
    IF ok THEN [status |-> "success"] ELSE [error |-> "Simulation failed"]

handleSimulateNode(nodeId, ok) ==
    /\ \E i \in DOMAIN nodes : nodes[i].id = nodeId
    /\ LogDemand + 1 <= MaxLog
    /\ workflowEngine' =
           [workflowEngine EXCEPT !.executionLog =
               Append(@, LogEntry(nodeId, IF ok THEN "success" ELSE "error"))]
    /\ returned' = [nodeId |-> nodeId, value |-> simulationValue(ok)]
    /\ Other("simulate")
    /\ UNCHANGED <<nodes, edges, history, historyIndex, isExecuting,
                   workflowSettings, now, initial, issues, executionResults,
                   executionLog, totalNodes, completedNodes,
                   currentExecutingNode, file, picked, pushLimit>>

\* setNodes(nds => nds.map(n => ({...n, data: {...n.data, status: 'idle'}})))
clearedNodesExceptError(ns) ==
    [i \in 1..Len(ns) |->
        IF ns[i].status = "error" THEN ns[i] ELSE [ns[i] EXCEPT !.status = "idle"]]

clearedNodes(ns) == [i \in 1..Len(ns) |-> [ns[i] EXCEPT !.status = "idle"]]

\* a Clear button that is never disabled
clearDisabledNever == FALSE

\* the header's Clear button: disabled={isExecuting}
clearDisabled == isExecuting

\* the header's onClear
onClear ==
    /\ ~clearDisabled
    /\ workflowEngine' = [workflowEngine EXCEPT !.executionLog = <<>>]
    /\ executionResults' = {}
    /\ executionLog' = <<>>
    /\ currentExecutingNode' = NoNode
    /\ completedNodes' = 0
    /\ totalNodes' = 0
    /\ nodes' = clearedNodes(nodes)
    /\ Other("clear")
    /\ UNCHANGED <<edges, history, historyIndex, isExecuting, workflowSettings,
                   now, initial, issues, returned, file, picked, pushLimit>>

RunGraph ==
    Graph(<<Node(NodeId("trigger", 0), "trigger", "true", "idle"),
            Node(NodeId("action", 0), "action", "true", "idle")>>,
          <<Edge(NodeId("trigger", 0), NodeId("action", 0))>>)

\* the builder showing RunGraph, nothing run yet
InitRunning(limit) ==
    /\ InitExec(limit)
    /\ initial = RunGraph
    /\ nodes = initial.nodes
    /\ edges = initial.edges
    /\ history = <<>>
    /\ historyIndex = -1
    /\ isExecuting = FALSE
    /\ workflowSettings = [enableValidation |-> TRUE, errorHandling |-> "stop"]
    /\ now = 1
    /\ issues = <<>>
    /\ lastOp = "init"
    /\ couldRedo = FALSE
    /\ script = ScriptOff

\* the ids of the nodes handed to the run in flight
RunIds == IF workflowEngine.run = <<>> THEN {} ELSE IdsOf(workflowEngine.run[1].nodes)

\* runs and steps among toggles, undos and redos
InitRun == InitRunning(MaxRunPushes)

NextRun ==
    \/ \E id \in NodeIds : onToggleNodeEnable(id)
    \/ undo
    \/ redo
    \/ executeWorkflowStart
    \/ \E faulty \in SUBSET RunIds, internalFault \in BOOLEAN :
          executeWorkflowDone(faulty, internalFault)
    \/ \E id \in NodeIds : handleStepExecution(id)
    \/ \E id \in workflowEngine.steps, ok \in BOOLEAN :
          handleStepExecutionDone(id, ok)

SpecRun == InitRun /\ [][NextRun]_vars

\* runs and steps among toggles, cleared now and then
InitClear == InitRunning(MaxClearPushes)

NextClear ==
    \/ \E id \in NodeIds : onToggleNodeEnable(id)
    \/ executeWorkflowStart
    \/ \E faulty \in SUBSET RunIds, internalFault \in BOOLEAN :
          executeWorkflowDone(faulty, internalFault)
    \/ \E id \in NodeIds : handleStepExecution(id)
    \/ \E id \in workflowEngine.steps, ok \in BOOLEAN :
          handleStepExecutionDone(id, ok)
    \/ onClear

SpecClear == InitClear /\ [][NextClear]_vars

\* simulations among runs and steps
NextSimulate ==
    \/ executeWorkflowStart
    \/ \E faulty \in SUBSET RunIds, internalFault \in BOOLEAN :
          executeWorkflowDone(faulty, internalFault)
    \/ \E id \in NodeIds : handleStepExecution(id)
    \/ \E id \in workflowEngine.steps, ok \in BOOLEAN :
          handleStepExecutionDone(id, ok)
    \/ \E id \in NodeIds, ok \in BOOLEAN : handleSimulateNode(id, ok)

SpecSimulate == InitClear /\ [][NextSimulate]_vars

(***************************************************************************)
(* Files: the header's Export and Import and the canvas's download.  A     *)
(* file is written with JSON.stringify and read with JSON.parse; a member   *)
(* that is absent from the object read is undefined.                       *)
(***************************************************************************)
Garbage == [kind |-> "garbage"]

NullFile == [kind |-> "null"]

ObjectFile(data) == [kind |-> "object", data |-> data]

\* the value undefined where the node or edge array is expected
Undefined == <<[undefined |-> TRUE]>>

Member(data, name) == IF name \in DOMAIN data THEN data[name] ELSE Undefined

\* the builder renders nodes.length and edges.length
Rendered == nodes # Undefined /\ edges # Undefined

handleExport ==
    /\ file' = <<ObjectFile([version |-> "1.0",
                             timestamp |-> now,
                             nodeCount |-> Len(nodes),
                             connectionCount |-> Len(edges),
                             metadata |-> [created |-> now, lastModified |-> now]])>>
    /\ Other("export")
    /\ UNCHANGED <<nodes, edges, history, historyIndex, isExecuting,
                   workflowSettings, now, initial, issues, executionResults,
                   executionLog, totalNodes, completedNodes,
                   currentExecutingNode, workflowEngine, returned, picked,
                   pushLimit>>

\* EnhancedCanvas downloadImage
downloadImage ==
    /\ file' = <<ObjectFile([nodes |-> nodes,
                             edges |-> edges,
                             viewport |-> "viewport",
                             timestamp |-> now,
                             metadata |-> [nodeCount |-> Len(nodes),
                                           edgeCount |-> Len(edges),
                                           version |-> "1.0.0"]])>>
    /\ Other("download")
    /\ UNCHANGED <<nodes, edges, history, historyIndex, isExecuting,
                   workflowSettings, now, initial, issues, executionResults,
                   executionLog, totalNodes, completedNodes,
                   currentExecutingNode, workflowEngine, returned, picked,
                   pushLimit>>

\* the document of the exchange format: {version, nodes, edges, metadata}
ExchangeDocument(g) ==
    [version |-> "1.0", nodes |-> g.nodes, edges |-> g.edges,
     metadata |-> [created |-> 0, lastModified |-> 0]]

\* a document of the exchange format whose edges name a node that is not
\* among its nodes: the first node of g with all the edges of g
DanglingDocument(g) ==
    ExchangeDocument(Graph(FirstN(g.nodes, 1), g.edges))

\* the files the user may pick
ImportFiles ==
    {Garbage, NullFile}
        \cup {ObjectFile(ExchangeDocument(t)) : t \in Templates}
        \cup {ObjectFile(DanglingDocument(t)) : t \in Templates}
        \cup {ObjectFile([version |-> "1.0", edges |-> <<>>,
                          metadata |-> [created |-> 0, lastModified |-> 0]])}
        \cup {ObjectFile([version |-> "1.0", nodes |-> t.nodes,
                          metadata |-> [created |-> 0, lastModified |-> 0]]) :
                 t \in Templates}
        \cup {file[i] : i \in DOMAIN file}

\* handleImport: JSON.parse throws on text that is no JSON, and
\* onApplyTemplate(null) throws reading template.nodes; both end in the
\* catch block.  Any other value parsed is applied by onApplyTemplate.
handleImport(text) ==
    /\ picked' = text
    /\ IF text.kind # "object"
       THEN /\ UNCHANGED <<nodes, edges, history, historyIndex>>
            /\ Other("importFailed")
       ELSE /\ CanPush
            /\ nodes' = Member(text.data, "nodes")
            /\ edges' = Member(text.data, "edges")
            /\ PushCurrent
            /\ lastOp' = "import"
            /\ couldRedo' = canRedo
            /\ UNCHANGED script
    /\ UNCHANGED <<isExecuting, workflowSettings, now, initial, issues,
                   executionResults, executionLog, totalNodes, completedNodes,
                   currentExecutingNode, workflowEngine, returned, file,
                   pushLimit>>

InitImport == InitRunning(MaxImportPushes)

\* once nodes or edges is undefined the builder cannot render and no
\* handler is reachable
NextImport ==
    /\ Rendered
    /\ \/ handleExport
       \/ downloadImage
       \/ \E text \in ImportFiles : handleImport(text)
       \/ \E id \in NodeIds : onToggleNodeEnable(id)
       \/ \E id \in NodeIds : onDeleteNode(id)

SpecImport == InitImport /\ [][NextImport]_vars

(***************************************************************************)
(* Runs of the chain A -> B -> C under each error-handling policy.         *)
(***************************************************************************)
ChainA == NodeId("trigger", 0)

ChainB == NodeId("action", 0)

ChainC == NodeId("action", 1)

ChainGraph ==
    Graph(<<Node(ChainA, "trigger", "true", "idle"),
            Node(ChainB, "action", "true", "idle"),
            Node(ChainC, "action", "true", "idle")>>,
          <<Edge(ChainA, ChainB), Edge(ChainB, ChainC)>>)

\* WorkflowSettings onSettingsChange={setWorkflowSettings}: the policy chosen
onErrorHandlingChange(policy) ==
    /\ workflowSettings' = [workflowSettings EXCEPT !.errorHandling = policy]
    /\ Other("settings")
    /\ UNCHANGED <<nodes, edges, history, historyIndex, isExecuting, now,
                   initial, issues>>
    /\ UNCHANGED execVars

\* the policy the engine applies is the engine's own: any of the three
InitChain ==
    /\ executionResults = {}
    /\ executionLog = <<>>
    /\ totalNodes = 0
    /\ completedNodes = 0
    /\ currentExecutingNode = NoNode
    /\ \E policy \in ErrorPolicies :
          workflowEngine = [IdleEngine EXCEPT !.errorHandling = policy]
    /\ returned = NoValue
    /\ file = <<>>
    /\ picked = NoFile
    /\ pushLimit = MaxRunPushes
    /\ initial = ChainGraph
    /\ nodes = initial.nodes
    /\ edges = initial.edges
    /\ history = <<>>
    /\ historyIndex = -1
    /\ isExecuting = FALSE
    /\ workflowSettings = [enableValidation |-> TRUE, errorHandling |-> "stop"]
    /\ now = 1
    /\ issues = <<>>
    /\ lastOp = "init"
    /\ couldRedo = FALSE
    /\ script = ScriptOff

NextChain ==
    \/ \E policy \in ErrorPolicies : onErrorHandlingChange(policy)
    \/ executeWorkflowStart
    \/ \E faulty \in SUBSET RunIds, internalFault \in BOOLEAN :
          executeWorkflowDone(faulty, internalFault)
    \/ onClear

SpecChain == InitChain /\ [][NextChain]_vars

(***************************************************************************)
(* The history at its capacity: one node toggled MaxMutations times in a   *)
(* row from the empty history, then undone.                                *)
(***************************************************************************)
CapacityGraph == Graph(<<Node(NodeId("trigger", 0), "trigger", "true", "idle")>>, <<>>)

InitCapacity ==
    /\ InitExec(MaxMutations)
    /\ initial = CapacityGraph
    /\ nodes = initial.nodes
    /\ edges = initial.edges
    /\ history = <<>>
    /\ historyIndex = -1
    /\ isExecuting = FALSE
    /\ workflowSettings = [enableValidation |-> TRUE, errorHandling |-> "stop"]
    /\ now = 1
    /\ issues = <<>>
    /\ lastOp = "init"
    /\ couldRedo = FALSE
    /\ script = [ScriptOff EXCEPT !.phase = "m", !.final = initial]

NextCapacity ==
    \/ script.phase = "m" /\ \E id \in NodeIds : onToggleNodeEnable(id)
    \/ undo

SpecCapacity == InitCapacity /\ [][NextCapacity]_vars

(***************************************************************************)
(* What the properties speak of.                                           *)
(***************************************************************************)
\* the directed edge relation has a cycle: some node reaches itself along
\* one or more edges
Successors(es, S) == {es[i].target : i \in {j \in DOMAIN es : es[j].source \in S}}

RECURSIVE ReachableFrom(_, _)
ReachableFrom(es, S) ==
    LET more == S \cup Successors(es, S)
    IN IF more = S THEN S ELSE ReachableFrom(es, more)

EdgeRelationHasCycle(es) ==
    \E x \in connectedNodeIds(es) : x \in ReachableFrom(es, Successors(es, {x}))

CycleErrors(is) == SelectSeq(is, LAMBDA x : x.rule = "cycle" /\ x.type = "error")

IsolationWarnings(is, id) ==
    SelectSeq(is, LAMBDA x : x.rule = "isolated" /\ x.type = "warning" /\ x.nodeId = id)

InSomeEdge(id, es) == \E i \in DOMAIN es : es[i].source = id \/ es[i].target = id

HasTrigger(ns) == \E i \in DOMAIN ns : ns[i].type = "trigger"

(***************************************************************************)
(* Properties.                                                             *)
(***************************************************************************)
\* C1: with validation enabled, a run request on a graph for which validate
\* reports at least one error (no trigger, or a cycle) does not start a run.
C1_ErrorsBlockRun ==
    (lastOp = "execute" /\ workflowSettings.enableValidation
        /\ errorCount(validate(nodes, edges)) > 0)
    => ~isExecuting

\* C2: with validation enabled, a run request on a graph for which validate
\* reports no error (warnings and info only, or nothing) starts the run.
C2_WarningsInfoNeverBlock ==
    (lastOp = "execute" /\ workflowSettings.enableValidation
        /\ errorCount(validate(nodes, edges)) = 0)
    => isExecuting

\* C3 as stated: on a graph without a trigger node validate reports an error
\* and a run request is blocked, whatever the workflow settings are.
C3_NoTriggerNeverRuns ==
    (lastOp = "execute" /\ ~HasTrigger(nodes))
    => (errorCount(validate(nodes, edges)) >= 1 /\ ~isExecuting)

\* C3 as amended: on a graph without a trigger node validate reports an
\* error, and a run request is blocked whenever validation is enabled in the
\* settings.
C3_NoTriggerBlockedWhenValidating ==
    (lastOp = "execute" /\ ~HasTrigger(nodes))
    => /\ errorCount(validate(nodes, edges)) >= 1
       /\ workflowSettings.enableValidation => ~isExecuting

C3_Witness ==
    /\ lastOp = "execute"
    /\ Len(nodes) > 0
    /\ ~HasTrigger(nodes)
    /\ workflowSettings.enableValidation
    /\ ~isExecuting

C5_IsolatedIffUnconnectedNonTrigger ==
    lastOp = "validate"
    => /\ \A i \in DOMAIN nodes :
            Len(IsolationWarnings(issues, nodes[i].id))
                = IF nodes[i].type # "trigger" /\ ~InSomeEdge(nodes[i].id, edges)
                  THEN 1 ELSE 0
       /\ \A j \in DOMAIN issues :
            issues[j].rule = "isolated" => issues[j].nodeId \in IdsOf(nodes)

C5_Witness ==
    /\ lastOp = "validate"
    /\ \E i \in DOMAIN nodes :
          /\ nodes[i].type = "trigger"
          /\ ~InSomeEdge(nodes[i].id, edges)
          /\ Len(IsolationWarnings(issues, nodes[i].id)) = 0
    /\ \E i \in DOMAIN nodes :
          /\ nodes[i].type # "trigger"
          /\ Len(IsolationWarnings(issues, nodes[i].id)) = 1

\* the handlers that mutate the graph and call saveToHistory
MutationOps == {"add", "drop", "connect", "delete", "duplicate", "toggle", "template"}

\* C6: after a graph-mutating handler the snapshot it pushed, the newest
\* entry of the history, is the graph as it is after the mutation.
C6_PushedSnapshotIsGraphAfter ==
    lastOp \in MutationOps
    => /\ Len(history) >= 1
       /\ history[Len(history)] = Graph(nodes, edges)

\* C7: after a push, an undo or a redo with a non-empty history,
\* history[historyIndex] is the graph the graph store holds.
C7_IndexPointsAtDisplayedGraph ==
    (lastOp \in MutationOps \cup {"undo", "redo"} /\ Len(history) > 0)
    => /\ historyIndex \in 0..(Len(history) - 1)
       /\ history[historyIndex + 1] = Graph(nodes, edges)

\* C8: after N >= 1 mutations from the empty history and then N undos the
\* graph is the initial graph.
C8_UndoAllRestoresInitial ==
    (script.phase = "u" /\ script.m >= 1 /\ script.u = script.m)
    => Graph(nodes, edges) = initial

\* C9: after N >= 1 mutations, N undos and N redos the graph is the graph
\* as it was after the last mutation.
C9_RedoAllRestoresFinal ==
    (script.phase = "r" /\ script.m >= 1 /\ script.r = script.m)
    => Graph(nodes, edges) = script.final

C11_CapacityThenUndo ==
    (script.m = MaxMutations /\ script.phase \in {"m", "u"}
        /\ script.u < HistoryCap)
    => /\ Len(history) = HistoryCap
       /\ historyIndex = HistoryCap - 1 - script.u
       /\ script.u >= 1 => Graph(nodes, edges) = history[historyIndex + 1]

\* the full run and the single-node step, requested and settled
RunOps == {"execute", "settled", "step", "stepDone"}

\* C12: a node with enabled === false is never scheduled and keeps its
\* status through full runs and step executions: no step is requested for
\* it, no run result is about it, and no run or step, when requested or when
\* it settles, changes the status of a node that is disabled.
C12_DisabledNeverScheduledNorChanged ==
    [][lastOp' \in RunOps
        => /\ \A i \in DOMAIN nodes :
                (~IsEnabled(nodes[i]) /\ ~IsEnabled(nodes'[i]))
                => nodes'[i].status = nodes[i].status
           /\ lastOp' = "step"
                => \A i \in DOMAIN nodes :
                      nodes[i].id = currentExecutingNode' => IsEnabled(nodes[i])
           /\ lastOp' = "settled"
                => \A r \in executionResults' :
                      r[1] \in EnabledIds(workflowEngine.run[1].nodes)]_vars

\* C13: Clear, whatever runs and steps went before, sets every node's status
\* to idle, empties the execution log (the panel's and the engine's) and the
\* results and sets totalNodes and completedNodes to 0; it leaves the nodes'
\* ids, kinds and enabled flags and the edges as they were.
C13_ClearResetsExecutionOnly ==
    [][lastOp' = "clear"
        => /\ \A i \in DOMAIN nodes' : nodes'[i].status = "idle"
           /\ executionLog' = <<>>
           /\ workflowEngine'.executionLog = <<>>
           /\ executionResults' = {}
           /\ totalNodes' = 0
           /\ completedNodes' = 0
           /\ Len(nodes') = Len(nodes)
           /\ \A i \in DOMAIN nodes :
                 /\ nodes'[i].id = nodes[i].id
                 /\ nodes'[i].type = nodes[i].type
                 /\ nodes'[i].enabled = nodes[i].enabled
           /\ edges' = edges]_vars

\* Clear came after a step that had ended in success or error (the snapshot
\* a later toggle pushed still shows that status)
C13_Witness ==
    /\ lastOp = "clear"
    /\ \E j \in DOMAIN history : \E i \in DOMAIN history[j].nodes :
          history[j].nodes[i].status = "error"
    /\ \E i \in DOMAIN nodes : ~IsEnabled(nodes[i])
    /\ \A i \in DOMAIN nodes : nodes[i].status = "idle"

\* C14: a simulation (handleSimulateNode) changes no node, status included,
\* no edge and nothing of the history, whether the node's execution
\* succeeds or faults; a fault comes back as the error value, a success as
\* the engine's result.
C14_SimulationLeavesGraphAlone ==
    [][lastOp' = "simulate"
        => /\ nodes' = nodes
           /\ edges' = edges
           /\ history' = history
           /\ historyIndex' = historyIndex
           /\ LET log == workflowEngine'.executionLog
              IN returned'.value =
                    IF log[Len(log)].kind = "error"
                    THEN [error |-> "Simulation failed"]
                    ELSE [status |-> "success"]]_vars

\* a simulation of a node that an earlier step left in success has faulted
C14_Witness ==
    /\ lastOp = "simulate"
    /\ returned.value = [error |-> "Simulation failed"]
    /\ \E i \in DOMAIN nodes :
          nodes[i].id = returned.nodeId /\ nodes[i].status = "success"

EdgeSet(es) == {es[i] : i \in DOMAIN es}

\* C15: while a run is in progress the node set and the edge set of the
\* graph store do not change: no step taken between the start of a run and
\* its completion adds or removes a node or an edge.
C15_NoStructuralEditDuringRun ==
    [][(isExecuting /\ isExecuting')
        => /\ IdsOf(nodes') = IdsOf(nodes)
           /\ Len(nodes') = Len(nodes)
           /\ EdgeSet(edges') = EdgeSet(edges)]_vars

StatusOf(ns) == [i \in DOMAIN ns |-> <<ns[i].id, ns[i].status>>]

\* C16: while a full run is in flight no step execution (requested or
\* settling), undo, redo or Clear changes the status of any node.
C16_NoStatusWriterDuringRun ==
    [][(isExecuting /\ isExecuting'
            /\ lastOp' \in {"step", "stepDone", "undo", "redo", "clear"})
        => StatusOf(nodes') = StatusOf(nodes)]_vars

\* the file is a JSON object with the members version, nodes, edges, metadata
WellShaped(text) ==
    /\ text.kind = "object"
    /\ {"version", "nodes", "edges", "metadata"} \subseteq DOMAIN text.data

\* C17: an import of a file that is not a document {version, nodes, edges,
\* metadata}, a JSON object without a nodes or an edges array included, is
\* rejected and leaves nodes, edges, the history and its index as they
\* were.
C17_MalformedImportRejected ==
    [][(lastOp' \in {"import", "importFailed"} /\ ~WellShaped(picked'))
        => /\ lastOp' = "importFailed"
           /\ nodes' = nodes
           /\ edges' = edges
           /\ history' = history
           /\ historyIndex' = historyIndex]_vars

\* C18: the document Export writes has the members version, nodes, edges
\* and metadata {created, lastModified} and carries the nodes and edges of
\* the graph, and an import of the document written last leaves the graph
\* store with the nodes and edges that document was written from.
C18_ExportImportRoundTrip ==
    /\ lastOp = "export"
         => /\ WellShaped(file[1])
            /\ {"created", "lastModified"} \subseteq DOMAIN file[1].data.metadata
            /\ file[1].data.nodes = nodes
            /\ file[1].data.edges = edges
    /\ (lastOp = "import" /\ file # <<>> /\ picked = file[1])
         => /\ Rendered
            /\ nodes = Member(picked.data, "nodes")
            /\ edges = Member(picked.data, "edges")

StatusIn(ns, id) == {ns[i].status : i \in {j \in DOMAIN ns : ns[j].id = id}}

Logged(id, kind) ==
    \E i \in DOMAIN workflowEngine.executionLog :
        workflowEngine.executionLog[i] = LogEntry(id, kind)

\* C19: with errorHandling = stop in the workflow settings, after a run of
\* the chain A -> B -> C in which A succeeded and B faulted, A's status is
\* success, B's is error and C's is idle, and the run was aborted at B: C
\* was not invoked.
C19_StopPolicyAbortsAtFault ==
    (lastOp = "settled" /\ workflowSettings.errorHandling = "stop"
        /\ Logged(ChainA, "success") /\ Logged(ChainB, "error"))
    => /\ StatusIn(nodes, ChainA) = {"success"}
       /\ StatusIn(nodes, ChainB) = {"error"}
       /\ StatusIn(nodes, ChainC) = {"idle"}
       /\ ~Logged(ChainC, "success")
       /\ ~Logged(ChainC, "error")
       /\ ~isExecuting

\* a node that lies on a cycle can be reached from id (id itself included)
ReachesCycle(es, id) ==
    \E x \in ReachableFrom(es, {id}) : x \in ReachableFrom(es, Successors(es, {x}))

\* C20: a validation pass emits at most one cycle error however many cycles
\* the graph has, and the error names the first node of the node list from
\* which a cycle is found: the scan stops there.
C20_AtMostOneCycleError ==
    lastOp = "validate"
    => /\ Len(CycleErrors(issues)) <= 1
       /\ Len(CycleErrors(issues)) = 1
            => \E i \in DOMAIN nodes :
                  /\ nodes[i].id = CycleErrors(issues)[1].nodeId
                  /\ ReachesCycle(edges, nodes[i].id)
                  /\ \A j \in 1..(i - 1) : ~ReachesCycle(edges, nodes[j].id)

\* two cycles that share no node, one error, and it names a node past the
\* first of the list
C20_Witness ==
    /\ lastOp = "validate"
    /\ Len(CycleErrors(issues)) = 1
    /\ CycleErrors(issues)[1].nodeId # nodes[1].id
    /\ \E i \in DOMAIN edges, j \in DOMAIN edges :
          /\ edges[i].source = edges[i].target
          /\ edges[j].source = edges[j].target
          /\ edges[i].source # edges[j].source

DeadBranchWarnings(is, id) ==
    SelectSeq(is, LAMBDA x :
        x.rule = "condition-no-output" /\ x.type = "warning" /\ x.nodeId = id)

HasOutgoing(id, es) == \E i \in DOMAIN es : es[i].source = id

\* C21: the validation pass emits one dead-branch warning for each condition
\* node that is the source of no edge, and none for a condition node with
\* an outgoing edge or for a node of another kind; a condition node in no
\* edge at all gets the isolation warning as well.
C21_DeadBranchIffConditionWithoutOutput ==
    lastOp = "validate"
    => /\ \A i \in DOMAIN nodes :
            Len(DeadBranchWarnings(issues, nodes[i].id))
                = IF nodes[i].type = "condition" /\ ~HasOutgoing(nodes[i].id, edges)
                  THEN 1 ELSE 0
       /\ \A j \in DOMAIN issues :
            issues[j].rule = "condition-no-output" => issues[j].nodeId \in IdsOf(nodes)
       /\ \A i \in DOMAIN nodes :
            (nodes[i].type = "condition" /\ ~InSomeEdge(nodes[i].id, edges))
            => /\ Len(DeadBranchWarnings(issues, nodes[i].id)) = 1
               /\ Len(IsolationWarnings(issues, nodes[i].id)) = 1

\* an isolated condition node with both warnings next to a node that only
\* receives an edge: a condition node with the warning, or a node of another
\* kind without it
C21_Witness ==
    /\ lastOp = "validate"
    /\ \E i \in DOMAIN nodes :
          /\ nodes[i].type = "condition"
          /\ ~InSomeEdge(nodes[i].id, edges)
          /\ Len(DeadBranchWarnings(issues, nodes[i].id)) = 1
          /\ Len(IsolationWarnings(issues, nodes[i].id)) = 1
    /\ \E i \in DOMAIN nodes :
          /\ nodes[i].type = "condition"
          /\ HasOutgoing(nodes[i].id, edges)
          /\ Len(DeadBranchWarnings(issues, nodes[i].id)) = 0

InfoIssues(is, id) == SelectSeq(is, LAMBDA x : x.type = "info" /\ x.nodeId = id)

\* C22: the validation pass emits one info issue for each node that is
\* disabled (enabled === false) and of kind trigger or condition, and none
\* for an enabled node (the enabled field true or absent) or for a disabled
\* node of another kind.
C22_InfoIffDisabledCritical ==
    lastOp = "validate"
    => /\ \A i \in DOMAIN nodes :
            Len(InfoIssues(issues, nodes[i].id))
                = IF nodes[i].enabled = "false"
                        /\ nodes[i].type \in {"trigger", "condition"}
                  THEN 1 ELSE 0
       /\ \A j \in DOMAIN issues :
            issues[j].type = "info"
            => /\ issues[j].rule = "disabled-critical"
               /\ issues[j].nodeId \in IdsOf(nodes)

\* a disabled trigger with its info issue next to a condition node whose
\* enabled field is absent and that has none
C22_Witness ==
    /\ lastOp = "validate"
    /\ \E i \in DOMAIN nodes :
          /\ nodes[i].type = "trigger"
          /\ nodes[i].enabled = "false"
          /\ Len(InfoIssues(issues, nodes[i].id)) = 1
    /\ \E i \in DOMAIN nodes :
          /\ nodes[i].type = "condition"
          /\ nodes[i].enabled = "undefined"
          /\ Len(InfoIssues(issues, nodes[i].id)) = 0

\* C23: undo with historyIndex <= 0 and redo with historyIndex at (or past)
\* the newest entry change neither nodes, edges, the history nor the
\* index; and no undo or redo changes the history stack.
C23_UndoRedoNoOpsAndFrame ==
    [][/\ (lastOp' = "undo" /\ historyIndex <= 0)
            => UNCHANGED <<nodes, edges, history, historyIndex>>
       /\ (lastOp' = "redo" /\ historyIndex >= Len(history) - 1)
            => UNCHANGED <<nodes, edges, history, historyIndex>>
       /\ lastOp' \in {"undo", "redo"} => history' = history]_vars

\* redo was called at the newest of two or more entries
C23_Witness ==
    /\ lastOp = "redo"
    /\ ~couldRedo
    /\ Len(history) >= 2
    /\ historyIndex = Len(history) - 1

\* C24: a run sets totalNodes to the number of enabled nodes when it
\* starts; when it has settled with k nodes at success or error,
\* completedNodes = k; and 0 <= completedNodes <= totalNodes throughout.
C24_ProgressCounters ==
    /\ (lastOp = "execute" /\ isExecuting)
            => totalNodes = Len(SelectSeq(nodes, IsEnabled))
    /\ lastOp = "settled"
            => completedNodes = Cardinality(
                   {p \in executionResults : p[2] \in {"success", "error"}})
    /\ 0 <= completedNodes /\ completedNodes <= totalNodes

\* both endpoints of every edge of es are ids of nodes of ns
EndpointsPresent(ns, es) ==
    \A i \in DOMAIN es :
        /\ es[i].source \in IdsOf(ns)
        /\ es[i].target \in IdsOf(ns)

\* C25: in the graph store and in every snapshot of the history both
\* endpoints of every edge are ids of nodes of that same state.
C25_EdgesReferToPresentNodes ==
    /\ Rendered => EndpointsPresent(nodes, edges)
    /\ \A i \in DOMAIN history :
           (history[i].nodes # Undefined /\ history[i].edges # Undefined)
               => EndpointsPresent(history[i].nodes, history[i].edges)

\* C26: no two nodes of the graph store share an id.
C26_NodeIdsUnique ==
    \A i, j \in DOMAIN nodes : nodes[i].id = nodes[j].id => i = j

\* C27: Clear never takes effect while a run is in progress.
C27_NoClearDuringRun ==
    [][lastOp' = "clear" => (~isExecuting /\ ~isExecuting')]_vars

\* a run is in progress while a node carries a status Clear would reset
C27_Witness ==
    /\ isExecuting
    /\ \E i \in DOMAIN nodes : nodes[i].status # "idle"

\* C30: a run starts only while no run is in progress and the canvas is not
\* empty, a run is in flight at the engine only while isExecuting is set,
\* and the step in which the engine call settles, resolved or rejected,
\* leaves isExecuting false.
C30_OneRunAtATime ==
    [][/\ lastOp' = "execute" => (~isExecuting /\ Len(nodes) > 0)
       /\ lastOp' = "settled" => (isExecuting /\ ~isExecuting')
       /\ workflowEngine'.run # <<>> => isExecuting']_vars

\* a second run was started after the first had settled
C30_Witness ==
    /\ lastOp = "execute"
    /\ isExecuting
    /\ executionLog # <<>>

\* C28: the history index is within the stack, -1 <= historyIndex <=
\* Len(history) - 1, so that the entry undo restores exists whenever undo
\* is enabled.
C28_IndexWithinStack ==
    /\ -1 <= historyIndex
    /\ historyIndex <= Len(history) - 1
    /\ canUndo => historyIndex - 1 \in 0..(Len(history) - 1)

\* C29: a toggle turns an enabled node, one without an enabled field
\* included, into a disabled one and a disabled node into an enabled one,
\* and changes no other node.
C29_ToggleFlipsEffectiveState ==
    [][lastOp' = "toggle" =>
          /\ Len(nodes') = Len(nodes)
          /\ \E id \in IdsOf(nodes) : \A i \in DOMAIN nodes :
                 IF nodes[i].id = id
                 THEN IsEnabled(nodes'[i]) # IsEnabled(nodes[i])
                 ELSE nodes'[i] = nodes[i]]_vars

====
